---- MODULE Spec2Model ----
(***************************************************************************)
(* Issue positioning engine of taskcore (internal/issues): CreateIssue,    *)
(* MoveIssue, ArchiveIssue and UpdateIssue as transactions made of SQL     *)
(* statements against a PostgreSQL store at READ COMMITTED.                *)
(*                                                                         *)
(* db   : the committed rows (issues, project_issue_counters).             *)
(* tx   : one record per call in flight: its position in the code (pc),    *)
(*        parameters, locals, uncommitted row versions (w), the index keys *)
(*        of every version it wrote (wkeys) and the row locks it holds.    *)
(* A statement sees the committed rows overlaid with the transaction's own *)
(* versions (View).  A statement that needs a row lock or meets an index   *)
(* entry of a transaction in progress waits (WaitsFor); a cycle of waits   *)
(* is broken by the store aborting one member (DeadlockAbort).             *)
(***************************************************************************)
EXTENDS Integers, Sequences, FiniteSets, TLC

\* ---------------------------------------------------------------- bounds
MaxIssues == 4
MaxTx == 2

\* ------------------------------------------------------ program constants
reorderOffset == 1000000

Projects == {1, 2}
Statuses == {1, 2, 3}
\* statuses 1 (Todo) and 2 (Doing) belong to project 1, status 3 to project 2
StatusProject(s) == IF s = 3 THEN 2 ELSE 1
IssueIds == 1 .. MaxIssues
TxIds == 1 .. MaxTx
\* the empty string given as TargetStatusID
NoTarget == 0
\* an id that is no row of statuses
UnknownStatus == Cardinality(Statuses) + 1
MaxReq == MaxIssues
MaxSeed == MaxIssues - 1

VARIABLES db, tx, mode, ops

vars == <<db, tx, mode, ops>>

\* ------------------------------------------------------------- row helpers
NoRows == [i \in {} |-> 0]

Row(p, s, pos, n) ==
    [project |-> p, status |-> s, pos |-> pos, archived |-> FALSE,
     number |-> n, title |-> 0, assignee |-> 0]

Key(row) == <<row.project, row.status, row.pos>>

\* WHERE project_id = p AND status_id = s AND archived_at IS NULL
ActiveIn(rows, p, s) ==
    {i \in DOMAIN rows :
        rows[i].project = p /\ rows[i].status = s /\ ~rows[i].archived}

SetMax(S) == CHOOSE x \in S : \A y \in S : y <= x
SetMin(S) == CHOOSE x \in S : \A y \in S : x <= y

\* the sub-select without its test of archived_at
NextPositionAllRows(rows, p, s) ==
    LET all == {i \in DOMAIN rows : rows[i].project = p /\ rows[i].status = s}
    IN  IF all = {} THEN 0 ELSE SetMax({rows[i].pos : i \in all}) + 1

\* SELECT COALESCE(MAX(status_position), -1) + 1
NextPosition(rows, p, s) ==
    IF ActiveIn(rows, p, s) = {} THEN 0
    ELSE SetMax({rows[i].pos : i \in ActiveIn(rows, p, s)}) + 1

\* SELECT COUNT(*)
CountActive(rows, p, s) == Cardinality(ActiveIn(rows, p, s))

\* what a statement of transaction t reads: committed rows, own versions on top
View(t) == tx[t].w @@ db.issues

IdleTx ==
    [pc |-> "idle", op |-> "none", result |-> "",
     project |-> 0, issue |-> 0, target |-> 0, req |-> 0, title |-> 0,
     assignee |-> 0, out |-> <<>>,
     src |-> 0, spos |-> 0, tgt |-> 0, tpos |-> 0, temp |-> 0,
     number |-> 0, newid |-> 0,
     w |-> NoRows, wkeys |-> {},
     ilocks |-> {}, slocks |-> {}, kshare |-> {}, clock |-> {}]

Running(t) == tx[t].pc \notin {"idle", "done"}

\* ---------------------------------------------------------- pure functions
\* the clamp without the same-status case: maxPos is always the count
clampMaxPosAlwaysCount(count, sameStatus) == count

clampMaxPos(count, sameStatus) ==
    LET maxPos == IF sameStatus THEN count - 1 ELSE count
    IN  IF maxPos < 0 THEN 0 ELSE maxPos

clampTargetPosition(count, requested, sameStatus) ==
    LET maxPos == clampMaxPos(count, sameStatus)
    IN  IF requested < 0 THEN 0
        ELSE IF requested > maxPos THEN maxPos
        ELSE requested

\* the rows an UPDATE writes: ids of sel, status_position changed by delta
UpdatePos(rows, sel, delta) ==
    [i \in sel |-> [rows[i] EXCEPT !.pos = @ + delta]]

\* WHERE ... AND id <> issue AND status_position BETWEEN lo AND hi
RangeSel(rows, p, s, issue, lo, hi) ==
    {i \in ActiveIn(rows, p, s) :
        i # issue /\ rows[i].pos >= lo /\ rows[i].pos <= hi}

\* WHERE ... AND id <> issue AND status_position >= lo [AND status_position <= hi]
\* (the upper bound is added only when endPos >= 0)
\* the -1 shift without its lower bound
DownSelNoLowerBound(rows, p, s, issue, lo, hi, endPos) ==
    {i \in ActiveIn(rows, p, s) : i # issue /\ (endPos >= 0 => rows[i].pos <= hi)}

DownSel(rows, p, s, issue, lo, hi, endPos) ==
    {i \in ActiveIn(rows, p, s) :
        i # issue /\ rows[i].pos >= lo /\ (endPos >= 0 => rows[i].pos <= hi)}

shiftUpRangePhase1(rows, p, issue, s, startPos, endPos) ==
    UpdatePos(rows, RangeSel(rows, p, s, issue, startPos, endPos), reorderOffset)

shiftUpRangePhase2(rows, p, issue, s, startPos, endPos) ==
    UpdatePos(rows,
              RangeSel(rows, p, s, issue, startPos + reorderOffset,
                       endPos + reorderOffset),
              1 - reorderOffset)

shiftDownRangePhase1(rows, p, issue, s, startPos, endPos) ==
    UpdatePos(rows, DownSel(rows, p, s, issue, startPos, endPos, endPos),
              reorderOffset)

shiftDownRangePhase2(rows, p, issue, s, startPos, endPos) ==
    UpdatePos(rows,
              DownSel(rows, p, s, issue, startPos + reorderOffset,
                      endPos + reorderOffset, endPos),
              0 - reorderOffset - 1)

\* no id <> issue here: every active row of the target at or after targetPos
GapSel(rows, p, s, lo) ==
    {i \in ActiveIn(rows, p, s) : rows[i].pos >= lo}

openGapPhase1(rows, p, s, targetPos) ==
    UpdatePos(rows, GapSel(rows, p, s, targetPos), reorderOffset)

openGapPhase2(rows, p, s, targetPos) ==
    UpdatePos(rows, GapSel(rows, p, s, targetPos + reorderOffset),
              1 - reorderOffset)

\* UPDATE issues SET ... WHERE id = issue AND project_id = p
ByIdSel(rows, p, issue) ==
    {i \in DOMAIN rows : i = issue /\ rows[i].project = p}

parkUpdate(rows, p, issue, tempPos) ==
    [i \in ByIdSel(rows, p, issue) |-> [rows[i] EXCEPT !.pos = tempPos]]

\* the final UPDATE setting status_position only
placeUpdatePositionOnly(rows, p, issue, targetStatus, targetPos) ==
    [i \in ByIdSel(rows, p, issue) |-> [rows[i] EXCEPT !.pos = targetPos]]

placeUpdate(rows, p, issue, targetStatus, targetPos) ==
    [i \in ByIdSel(rows, p, issue) |->
        [rows[i] EXCEPT !.status = targetStatus, !.pos = targetPos]]

\* ------------------------------------------------- the statement at each pc
SameStatus(r) == r.src = r.tgt

\* the range shifted by its final amount in a single UPDATE
LiftStmtDirect(rows, r) ==
    IF SameStatus(r)
    THEN IF r.tpos < r.spos
         THEN UpdatePos(rows, RangeSel(rows, r.project, r.src, r.issue,
                                       r.tpos, r.spos - 1), 1)
         ELSE UpdatePos(rows, RangeSel(rows, r.project, r.src, r.issue,
                                       r.spos + 1, r.tpos), 0 - 1)
    ELSE UpdatePos(rows, DownSel(rows, r.project, r.src, r.issue,
                                 r.spos + 1, 0 - 1, 0 - 1), 0 - 1)

\* reorderWithinSameStatus / collapseSourceStatus, first UPDATE (+ reorderOffset)
LiftStmt(rows, r) ==
    IF SameStatus(r)
    THEN IF r.tpos < r.spos
         THEN shiftUpRangePhase1(rows, r.project, r.issue, r.src, r.tpos, r.spos - 1)
         ELSE shiftDownRangePhase1(rows, r.project, r.issue, r.src, r.spos + 1, r.tpos)
    ELSE shiftDownRangePhase1(rows, r.project, r.issue, r.src, r.spos + 1, -1)

\* the shift without its second UPDATE
LandStmtNone(rows, r) == NoRows

\* second UPDATE (- reorderOffset +/- 1)
LandStmt(rows, r) ==
    IF SameStatus(r)
    THEN IF r.tpos < r.spos
         THEN shiftUpRangePhase2(rows, r.project, r.issue, r.src, r.tpos, r.spos - 1)
         ELSE shiftDownRangePhase2(rows, r.project, r.issue, r.src, r.spos + 1, r.tpos)
    ELSE shiftDownRangePhase2(rows, r.project, r.issue, r.src, r.spos + 1, -1)

\* the pc after the park: the early returns of reorderWithinSameStatus,
\* shiftUpRange (startPos > endPos) and shiftDownRange (endPos >= 0, startPos > endPos)
AfterParkSame(r) ==
    IF r.tpos < r.spos
    THEN (IF r.tpos > r.spos - 1 THEN "place" ELSE "lift")
    ELSE IF r.tpos > r.spos
    THEN (IF r.tpos >= 0 /\ r.spos + 1 > r.tpos THEN "place" ELSE "lift")
    ELSE "place"

\* moveIssue without collapseSourceStatus
AfterParkNoCollapse(r) == IF SameStatus(r) THEN AfterParkSame(r) ELSE "gaplift"

AfterPark(r) == IF SameStatus(r) THEN AfterParkSame(r) ELSE "lift"

AfterLand(r) == IF SameStatus(r) THEN "place" ELSE "gaplift"

\* INSERT INTO issues ... of createIssue: the new row
insertRow(r) ==
    [i \in {r.newid} |->
        [Row(r.project, r.target, r.temp, r.number) EXCEPT !.title = r.title,
                                                          !.assignee = r.assignee]]

UpdatePcs == {"parkupd", "lift", "land", "gaplift", "gapland", "place", "insrow"}

\* the row versions the statement at t's pc writes
Stmt(t) ==
    LET r == tx[t]
        V == View(t)
    IN  CASE r.pc = "parkupd" -> parkUpdate(V, r.project, r.issue, r.temp)
          [] r.pc = "lift"    -> LiftStmt(V, r)
          [] r.pc = "land"    -> LandStmt(V, r)
          [] r.pc = "gaplift" -> openGapPhase1(V, r.project, r.tgt, r.tpos)
          [] r.pc = "gapland" -> openGapPhase2(V, r.project, r.tgt, r.tpos)
          [] r.pc = "place"   -> placeUpdate(V, r.project, r.issue, r.tgt, r.tpos)
          [] r.pc = "insrow"  -> insertRow(r)
          [] OTHER            -> NoRows

\* ------------------------------------------------------------------- locks
\* issue rows read without FOR UPDATE: nobody holds them
IssueHoldersNone(i) == {}

IssueHolders(i) == {u \in TxIds : i \in tx[u].ilocks}
\* status rows as if the foreign key took no lock on them
StatusHoldersNoKeyShare(s) == {u \in TxIds : s \in tx[u].slocks}

\* FOR UPDATE on a status row conflicts with FOR UPDATE and with the FOR KEY
\* SHARE lock the foreign key issues.status_id takes
StatusHolders(s) == {u \in TxIds : s \in tx[u].slocks \cup tx[u].kshare}
StatusUpdHolders(s) == {u \in TxIds : s \in tx[u].slocks}
\* the counter read without locking its row
CounterHoldersNone(p) == {}

CounterHolders(p) == {u \in TxIds : p \in tx[u].clock}

\* SELECT ... ORDER BY id FOR UPDATE: rows are locked in ascending id; the
\* statement holds what it has locked while it waits for the next row
Pending(need, held) == need \ held
\* holders[x]: the transactions holding a conflicting lock on row x
Acquirable(t, need, held, holders) ==
    {x \in Pending(need, held) :
        \A y \in Pending(need, held) : y <= x => holders[y] \ {t} = {}}
Blockers(t, need, held, holders) ==
    IF Pending(need, held) = {} THEN {}
    ELSE LET X == Pending(need, held) \ Acquirable(t, need, held, holders)
         IN  IF X = {} THEN {} ELSE holders[SetMin(X)] \ {t}
StatusLocks == [s \in Statuses |-> StatusHolders(s)]
IssueLocks == [i \in IssueIds |-> IssueHolders(i)]

\* lockStatuses without AND project_id = p
StatusNeedAnyProject(r) == {s \in Statuses : s = r.src \/ s = r.tgt}

\* lockStatuses: WHERE project_id = p AND (id = src OR id = tgt)
StatusNeed(r) ==
    {s \in Statuses : StatusProject(s) = r.project /\ (s = r.src \/ s = r.tgt)}

\* every active row of the project locked, whatever its status
IssueNeedWholeProject(rows, r) ==
    {i \in DOMAIN rows : rows[i].project = r.project /\ ~rows[i].archived}

\* lockAffectedIssues: active rows of the project in src or tgt
\* lockAffectedIssues locking no row beyond the moving issue's
IssueNeedMovingOnly(rows, r) == {r.issue}

IssueNeed(rows, r) ==
    ActiveIn(rows, r.project, r.src) \cup ActiveIn(rows, r.project, r.tgt)

\* the lookup without AND project_id = p
FindableAnyProject(rows, p, issue) ==
    issue \in DOMAIN rows /\ ~rows[issue].archived

\* the lookup without AND archived_at IS NULL
FindableArchivedToo(rows, p, issue) ==
    issue \in DOMAIN rows /\ rows[issue].project = p

\* getIssuePositionForUpdate / archiveIssue / updateIssue:
\* WHERE id = issue AND project_id = p AND archived_at IS NULL
Findable(rows, p, issue) ==
    /\ issue \in DOMAIN rows
    /\ rows[issue].project = p
    /\ ~rows[issue].archived

\* ------------------------------------------------- the partial unique index
\* uq_issues_active_status_position: entries of active rows only
\* the unique index without WHERE archived_at IS NULL
IndexedAll(row) == TRUE

Indexed(row) == ~row.archived

\* the schema without uq_issues_active_status_position: nothing collides
IndexViolationDropped(t, new) == FALSE

\* a new version collides with a live entry of another row: a committed row no
\* transaction in progress has rewritten, or a version of t's own
IndexViolation(t, new) ==
    LET V == new @@ View(t)
    IN  \E i \in DOMAIN new : \E j \in DOMAIN V \ {i} :
            /\ Indexed(V[i]) /\ Indexed(V[j])
            /\ Key(V[i]) = Key(V[j])
            /\ \/ j \in DOMAIN new \cup DOMAIN tx[t].w
               \/ \A u \in TxIds \ {t} : j \notin DOMAIN tx[u].w

\* the entry found belongs to a transaction in progress (a version it wrote,
\* or a committed row it has rewritten): wait for that transaction to end
IndexWaits(t, new) ==
    {u \in TxIds \ {t} :
        \E i \in DOMAIN new :
            /\ Indexed(new[i])
            /\ \/ Key(new[i]) \in tx[u].wkeys
               \/ \E j \in (DOMAIN tx[u].w \cap DOMAIN db.issues) \ {i} :
                    Indexed(db.issues[j]) /\ Key(db.issues[j]) = Key(new[i])}

\* CHECK (status_position >= 0)
CheckViolation(new) == \E i \in DOMAIN new : new[i].pos < 0

\* the table without trg_validate_issue_integrity
IntegrityViolationNone(new) == FALSE

\* trg_validate_issue_integrity: the row's status belongs to the row's project
IntegrityViolation(new) ==
    \E i \in DOMAIN new :
        new[i].status \notin Statuses \/ StatusProject(new[i].status) # new[i].project

RowWaits(t, sel) == UNION {IssueHolders(i) : i \in sel} \ {t}

\* the transactions t waits for at its pc
WaitsFor(t) ==
    LET r == tx[t]
    IN  CASE r.pc \in {"load", "archive", "update"} ->
               IF Findable(db.issues, r.project, r.issue)
               THEN IssueHolders(r.issue) \ {t} ELSE {}
          [] r.pc = "lockst" ->
               Blockers(t, StatusNeed(r), r.slocks, StatusLocks)
          [] r.pc = "lockis" ->
               Blockers(t, IssueNeed(View(t), r), r.ilocks, IssueLocks)
          [] r.pc = "upsert" -> CounterHolders(r.project) \ {t}
          [] r.pc = "fk" -> StatusUpdHolders(r.target) \ {t}
          [] r.pc = "archstatus" -> StatusHolders(r.target) \ {t}
          [] r.pc \in UpdatePcs ->
               LET new == Stmt(t)
                   rw == RowWaits(t, DOMAIN new \cap DOMAIN db.issues)
               IN  IF rw # {} THEN rw
                   ELSE IF CheckViolation(new) \/ IntegrityViolation(new)
                           \/ IndexViolation(t, new) THEN {}
                   ELSE IndexWaits(t, new)
          [] OTHER -> {}

RECURSIVE Reach(_, _)
Reach(S, n) ==
    IF n = 0 THEN S
    ELSE Reach(S \cup UNION {WaitsFor(u) : u \in S}, n - 1)

\* t is on a cycle of waiting transactions
Deadlocked(t) == Running(t) /\ t \in Reach(WaitsFor(t), MaxTx)

Ready(t) == WaitsFor(t) = {}

\* ------------------------------------------------------------- scenarios
\* mode names the scenario an initial state belongs to: how many calls may
\* overlap, whether a finished slot may serve a new call, how many calls are
\* made, and which calls.
Conc(m) == IF m \in {"serial", "errors", "reads"} THEN 1 ELSE MaxTx
Reuse(m) == m \in {"serial", "errors", "cm", "reads"}
MaxOpsOf(m) ==
    IF m = "cm" THEN MaxTx + 2
    ELSE IF m \in {"serial", "errors"} THEN 2
    ELSE IF m = "reads" THEN 3 ELSE MaxTx

CallRec(op, p, i, g, q, ti) ==
    [op |-> op, project |-> p, issue |-> i, target |-> g, req |-> q, title |-> ti,
     assignee |-> 0]

MoveCalls(P, I, G, Q) ==
    {CallRec("move", p, i, g, q, 0) : p \in P, i \in I, g \in G, q \in Q}
CreateCalls(P, S) == {CallRec("create", p, 0, s, 0, 1) : p \in P, s \in S}
\* CreateIssue calls with one thing wrong each: no project, no status, no
\* title, a status of another project
BadCreateCalls ==
    {CallRec("create", 0, 0, 1, 0, 1), CallRec("create", 1, 0, NoTarget, 0, 1),
     CallRec("create", 1, 0, 1, 0, 0),
     CallRec("create", 1, 0, SetMax(Statuses), 0, 1)}
\* a MoveIssue call that names a status of another project
BadMoveCalls == MoveCalls({1}, {1}, {SetMax(Statuses)}, {0})
ArchiveCalls(P, I) == {CallRec("archive", p, i, 0, 0, 0) : p \in P, i \in I}
UpdateCalls(P, I) == {CallRec("update", p, i, 0, 0, 1) : p \in P, i \in I}
\* UpdateIssue calls that set or clear the assignee
UpdateCallsAs(P, I, A) ==
    {[c EXCEPT !.assignee = a] : c \in UpdateCalls(P, I), a \in A}
\* ListIssues(project, [status], [assignee]); 0 stands for a filter left empty
ListCalls(P, S, A) ==
    {[CallRec("list", p, 0, s, 0, 0) EXCEPT !.assignee = a] : p \in P, s \in S, a \in A}
GetCalls(P, I) == {CallRec("get", p, i, 0, 0, 0) : p \in P, i \in I}
\* an UpdateIssue call without title
BadUpdateCalls == {CallRec("update", 1, 1, 0, 0, 0)}
ArchiveStatusCalls(P, S) == {CallRec("archivestatus", p, 0, s, 0, 0) : p \in P, s \in S}

Menu(m) ==
    CASE m = "serial" ->
            MoveCalls({1}, 1 .. MaxSeed, {NoTarget, 1, 2}, 0 .. MaxReq)
            \cup CreateCalls({1}, {1, 2}) \cup ArchiveCalls({1}, 1 .. MaxSeed)
            \cup UpdateCalls({1}, 1 .. MaxSeed)
      [] m = "errors" ->
            MoveCalls({0} \cup Projects, {0} \cup IssueIds,
                      {NoTarget, UnknownStatus} \cup Statuses, {-1, 0, 1})
            \cup ArchiveCalls({1}, {1}) \cup ArchiveStatusCalls({1}, {2})
      [] m = "reads" ->
            ListCalls({0} \cup Projects, {NoTarget, 1, 2}, {0, 1})
            \cup GetCalls({0} \cup Projects, 0 .. MaxSeed)
            \cup ArchiveCalls(Projects, 1 .. MaxSeed)
            \cup UpdateCallsAs(Projects, 1 .. MaxSeed, {0, 1}) \cup BadUpdateCalls
            \cup CreateCalls({2}, {SetMax(Statuses)})
      [] m = "moves" ->
            MoveCalls({1}, 1 .. MaxSeed, {1, 2}, {0, 1})
      [] m = "apart" ->
            MoveCalls({1}, IssueIds, {NoTarget, 2}, {0, 1})
      [] m = "frame" ->
            MoveCalls({1}, 1 .. MaxSeed, {NoTarget, 2}, {0, 1})
            \cup ArchiveCalls({1}, 1 .. MaxSeed)
      [] m = "cm" ->
            MoveCalls({1}, IssueIds, {1, 2}, {0, 1}) \cup CreateCalls({1}, {1, 2})
      [] OTHER ->
            MoveCalls({1}, 1 .. MaxSeed, {NoTarget, 1, 2}, {0, 1})
            \cup BadMoveCalls
            \cup CreateCalls({1}, {1, 2}) \cup BadCreateCalls
            \cup ArchiveCalls({1}, 1 .. MaxSeed)
            \cup UpdateCalls({1}, 1 .. MaxSeed)

\* ---------------------------------------------------------- initial states
\* positions of the active rows of (p, s) are exactly 0 .. N-1
Contiguous(rows, p, s) ==
    {rows[i].pos : i \in ActiveIn(rows, p, s)} = 0 .. (CountActive(rows, p, s) - 1)

\* n issues of project 1 spread over its statuses, each column contiguous, in
\* any order: the states serial CreateIssue and MoveIssue calls leave
SeedRows(n) ==
    {rows \in [1 .. n -> {Row(1, s, q, 0) : s \in {1, 2}, q \in 0 .. n - 1}] :
        Contiguous(rows, 1, 1) /\ Contiguous(rows, 1, 2)}

Numbered(rows) == [i \in DOMAIN rows |-> [rows[i] EXCEPT !.number = i]]

SeedDb(n) ==
    {[issues |-> Numbered(rows),
      counter |-> [p \in Projects |-> IF p = 1 THEN n ELSE 0],
      archivedStatuses |-> {}] :
        rows \in SeedRows(n)}

InitMode(m, sizes) ==
    /\ mode = m
    /\ db \in UNION {SeedDb(n) : n \in sizes}
    /\ tx = [t \in TxIds |-> IdleTx]
    /\ ops = 0

\* ----------------------------------------------------------------- actions
Released(r, res) ==
    [r EXCEPT !.pc = "done", !.result = res, !.w = NoRows, !.wkeys = {},
              !.ilocks = {}, !.slocks = {}, !.kshare = {}, !.clock = {}]

\* where slots are reused only the latest response is kept
Forget(f) ==
    [u \in TxIds |-> IF Reuse(mode) /\ f[u].pc = "done" THEN IdleTx ELSE f[u]]

Return(t, r, res) == tx' = [Forget(tx) EXCEPT ![t] = Released(r, res)]

\* the counter row never made permanent
committedCounterLost(counter, r) == counter

\* the project_issue_counters rows after r commits: createIssue's upsert
committedCounter(counter, r) ==
    IF r.op = "create" THEN [counter EXCEPT ![r.project] = r.number] ELSE counter

\* return err with the work done so far made permanent instead of rolled back
FinishKeepingWork(t, res) ==
    /\ Return(t, tx[t], res)
    /\ db' = [db EXCEPT !.issues = tx[t].w @@ db.issues]

\* return err with the counter row left as the transaction wrote it
FinishKeepingCounter(t, res) ==
    /\ Return(t, tx[t], res)
    /\ db' = [db EXCEPT !.counter = committedCounter(db.counter, tx[t])]

\* return err, with the deferred tx.Rollback()
Finish(t, res) ==
    /\ Return(t, tx[t], res)
    /\ UNCHANGED db

Goto(t, r, next) == tx' = [tx EXCEPT ![t] = [r EXCEPT !.pc = next]] /\ UNCHANGED db

\* Validate without the test of TargetPosition
ValidMoveAnyPosition(c) == c.project # 0 /\ c.issue # 0

\* MoveIssueParams.Validate
ValidMove(c) == c.project # 0 /\ c.issue # 0 /\ c.req >= 0

\* CreateIssueParams.Validate: project_id, status_id and title are required
\* (issue type, reporter and priority are not part of the model's calls)
ValidCreate(c) == c.project # 0 /\ c.target # NoTarget /\ c.title # 0

\* UpdateIssueParams.Validate: issue_id, project_id and title are required
\* (priority is not part of the model's calls)
ValidUpdate(c) == c.issue # 0 /\ c.project # 0 /\ c.title # 0

FirstPc(c) ==
    CASE c.op = "move"    -> IF ValidMove(c) THEN "load" ELSE "done"
      [] c.op = "create"  -> IF ValidCreate(c) THEN "upsert" ELSE "done"
      [] c.op = "archive" -> "archive"
      [] c.op = "archivestatus" -> "archstatus"
      [] c.op = "list"    -> IF c.project # 0 THEN "list" ELSE "done"
      [] c.op = "get"     -> IF c.project # 0 /\ c.issue # 0 THEN "get" ELSE "done"
      [] OTHER            -> IF ValidUpdate(c) THEN "update" ELSE "done"

Started(c) ==
    [IdleTx EXCEPT !.op = c.op, !.project = c.project, !.issue = c.issue,
                   !.target = c.target, !.req = c.req, !.title = c.title,
                   !.assignee = c.assignee,
                   !.pc = FirstPc(c),
                   !.result = IF FirstPc(c) = "done" THEN "validation" ELSE ""]

FreeSlot(t) == tx[t].pc = "idle" \/ (Reuse(mode) /\ tx[t].pc = "done")

RowsInUse == DOMAIN db.issues \cup {tx[u].newid : u \in TxIds}
Creating == {u \in TxIds : Running(u) /\ tx[u].op = "create" /\ tx[u].newid = 0}

\* a caller invokes one of the public operations (issues.go)
Call(t) ==
    /\ ops < MaxOpsOf(mode)
    /\ Cardinality({u \in TxIds : Running(u)}) < Conc(mode)
    /\ FreeSlot(t)
    /\ \A u \in TxIds : u < t => ~FreeSlot(u)
    /\ \E c \in Menu(mode) :
          /\ c.op = "create" =>
                Cardinality(RowsInUse \cap IssueIds) + Cardinality(Creating) < MaxIssues
          /\ tx' = [Forget(tx) EXCEPT ![t] = Started(c)]
    /\ ops' = ops + 1
    /\ UNCHANGED <<db, mode>>

\* an empty target taken as the project's first status
targetStatusIDFirst(target, sourceStatusID) ==
    IF target = NoTarget THEN SetMin(Statuses) ELSE target

\* targetStatusID := params.TargetStatusID, or sourceStatusID when it is empty
targetStatusID(target, sourceStatusID) ==
    IF target = NoTarget THEN sourceStatusID ELSE target

\* the issue row read without FOR UPDATE
loadLocksNone(issue) == {}

\* getIssuePositionForUpdate: the row lock FOR UPDATE takes
loadLocks(issue) == {issue}

\* getIssuePositionForUpdate: SELECT status_id, status_position ... FOR UPDATE
\* the load without archived_at IS NULL
loadWhereArchivedToo(rows, p, issue) == issue \in DOMAIN rows /\ rows[issue].project = p

\* getIssuePositionForUpdate: WHERE id = $1 AND project_id = $2 AND archived_at IS NULL
loadWhere(rows, p, issue) == Findable(rows, p, issue)

MoveLoad(t) ==
    LET r == tx[t]
    IN  /\ r.pc = "load"
        /\ Ready(t)
        /\ IF loadWhere(db.issues, r.project, r.issue)
           THEN LET row == db.issues[r.issue]
                IN  Goto(t, [r EXCEPT !.src = row.status, !.spos = row.pos,
                                      !.tgt = targetStatusID(r.target, row.status),
                                      !.ilocks = loadLocks(r.issue)], "lockst")
           ELSE Finish(t, "notfound")
        /\ UNCHANGED <<mode, ops>>

\* lockStatuses: the rows are locked in id order, then counted
MoveLockStatuses(t) ==
    LET r == tx[t]
        got == r.slocks \cup Acquirable(t, StatusNeed(r), r.slocks, StatusLocks)
        required == IF r.src # r.tgt THEN 2 ELSE 1
    IN  /\ r.pc = "lockst"
        /\ Ready(t)
        /\ IF StatusNeed(r) \subseteq got
           THEN IF Cardinality(StatusNeed(r)) # required
                THEN Finish(t, "status")
                ELSE Goto(t, [r EXCEPT !.slocks = got], "lockis")
           ELSE Goto(t, [r EXCEPT !.slocks = got], "lockst")
        /\ UNCHANGED <<mode, ops>>

\* lockAffectedIssues
MoveLockIssues(t) ==
    LET r == tx[t]
        need == IssueNeed(View(t), r)
        got == r.ilocks \cup Acquirable(t, need, r.ilocks, IssueLocks)
    IN  /\ r.pc = "lockis"
        /\ Ready(t)
        /\ Goto(t, [r EXCEPT !.ilocks = got],
                IF need \subseteq got THEN "clamp" ELSE "lockis")
        /\ UNCHANGED <<mode, ops>>

\* clampTargetPosition, then the no-op test of moveIssue
MoveClamp(t) ==
    LET r == tx[t]
        pos == clampTargetPosition(CountActive(View(t), r.project, r.tgt), r.req,
                                   r.src = r.tgt)
    IN  /\ r.pc = "clamp"
        /\ Goto(t, [r EXCEPT !.tpos = pos],
                IF r.src = r.tgt /\ pos = r.spos THEN "commit" ELSE "parksel")
        /\ UNCHANGED <<mode, ops>>

\* parkIssueAtTempPosition, the SELECT
MoveParkSelect(t) ==
    LET r == tx[t]
    IN  /\ r.pc = "parksel"
        /\ Goto(t, [r EXCEPT !.temp = NextPosition(View(t), r.project, r.src)], "parkupd")
        /\ UNCHANGED <<mode, ops>>

\* one INSERT or UPDATE: row locks, trigger, CHECK, unique index, then the write
Exec(t, next) ==
    LET r == tx[t]
        new == Stmt(t)
    IN  /\ Ready(t)
        /\ IF IntegrityViolation(new) THEN Finish(t, "integrity")
           ELSE IF CheckViolation(new) THEN Finish(t, "check")
           ELSE IF IndexViolation(t, new) THEN Finish(t, "unique")
           ELSE Goto(t, [r EXCEPT !.w = new @@ r.w,
                                  !.wkeys = @ \cup {Key(new[i]) : i \in
                                               {j \in DOMAIN new : Indexed(new[j])}},
                                  !.ilocks = @ \cup DOMAIN new], next)
        /\ UNCHANGED <<mode, ops>>

\* parkIssueAtTempPosition, the UPDATE
MoveParkUpdate(t) == tx[t].pc = "parkupd" /\ Exec(t, AfterPark(tx[t]))
\* shiftUpRange / shiftDownRange, phase 1
MoveLift(t) == tx[t].pc = "lift" /\ Exec(t, "land")
\* shiftUpRange / shiftDownRange, phase 2
MoveLand(t) == tx[t].pc = "land" /\ Exec(t, AfterLand(tx[t]))
\* openGapInTargetStatus, phase 1
MoveGapLift(t) == tx[t].pc = "gaplift" /\ Exec(t, "gapland")
\* openGapInTargetStatus, phase 2
MoveGapLand(t) == tx[t].pc = "gapland" /\ Exec(t, "place")
\* the UPDATE that places the moved issue
MovePlace(t) == tx[t].pc = "place" /\ Exec(t, "commit")

\* tx.Commit()
Commit(t) ==
    LET r == tx[t]
    IN  /\ r.pc = "commit"
        /\ db' = [db EXCEPT !.issues = r.w @@ db.issues,
                            !.counter = committedCounter(db.counter, r)]
        /\ Return(t, r, "ok")
        /\ UNCHANGED <<mode, ops>>

\* the store finds a cycle of waiting transactions and aborts one member
DeadlockAbort(t) ==
    /\ Deadlocked(t)
    /\ Finish(t, "deadlock")
    /\ UNCHANGED <<mode, ops>>

\* the caller's context is cancelled: the statement in progress or the next
\* one (or tx.Commit) fails, and the transaction is rolled back
MoveCancel(t) ==
    /\ tx[t].op = "move" /\ Running(t)
    /\ Finish(t, "cancelled")
    /\ UNCHANGED <<mode, ops>>

\* the counter row written once with 1 and never incremented
lastNumberInsertOnly(last) == 1

\* VALUES ($1, 1) ON CONFLICT (project_id) DO UPDATE SET last_number =
\* last_number + 1 RETURNING last_number; last = 0 stands for no counter row
lastNumberUpsert(last) == IF last = 0 THEN 1 ELSE last + 1

\* the counter row written outside the transaction: no lock is kept
upsertLocksNone(project) == {}

\* the row lock the upsert of project_issue_counters holds until the end of
\* the transaction
upsertLocks(project) == {project}

\* createIssue: INSERT INTO project_issue_counters ... ON CONFLICT DO UPDATE
\* ... RETURNING last_number (the counter row stays locked until the end)
CreateUpsert(t) ==
    LET r == tx[t]
    IN  /\ r.pc = "upsert"
        /\ Ready(t)
        /\ Goto(t, [r EXCEPT !.number = lastNumberUpsert(db.counter[r.project]),
                             !.clock = upsertLocks(r.project)], "inseval")
        /\ UNCHANGED <<mode, ops>>

\* createIssue: the INSERT takes its snapshot and evaluates the sub-select
\* COALESCE(MAX(status_position), -1) + 1; the row gets a fresh id
CreateInsertEval(t) ==
    LET r == tx[t]
    IN  /\ r.pc = "inseval"
        /\ \E id \in IssueIds \ RowsInUse :
              Goto(t, [r EXCEPT !.temp = NextPosition(View(t), r.project, r.target),
                                !.newid = id], "insrow")
        /\ UNCHANGED <<mode, ops>>

\* createIssue: the row and its index entry are written
CreateInsertRow(t) == tx[t].pc = "insrow" /\ Exec(t, "fk")

\* createIssue: at the end of the INSERT the foreign key issues.status_id
\* locks the status row FOR KEY SHARE
CreateForeignKey(t) ==
    LET r == tx[t]
    IN  /\ r.pc = "fk"
        /\ Ready(t)
        /\ Goto(t, [r EXCEPT !.kshare = {r.target}], "commit")
        /\ UNCHANGED <<mode, ops>>

\* an archive that also closes the gap: later issues of the status move up
archiveUpdateCompacting(rows, issue) ==
    [i \in DOMAIN rows |->
        IF i = issue THEN [rows[i] EXCEPT !.archived = TRUE]
        ELSE IF /\ rows[i].project = rows[issue].project
                /\ rows[i].status = rows[issue].status
                /\ ~rows[i].archived /\ rows[i].pos > rows[issue].pos
             THEN [rows[i] EXCEPT !.pos = @ - 1]
             ELSE rows[i]]

\* archiveIssue: UPDATE issues SET archived_at = NOW() WHERE id = issue
archiveUpdate(rows, issue) == [rows EXCEPT ![issue].archived = TRUE]

\* archiveIssue: one UPDATE outside any transaction
ArchiveExec(t) ==
    LET r == tx[t]
    IN  /\ r.pc = "archive"
        /\ Ready(t)
        /\ IF Findable(db.issues, r.project, r.issue)
           THEN /\ db' = [db EXCEPT !.issues = archiveUpdate(db.issues, r.issue)]
                /\ Return(t, r, "ok")
           ELSE Finish(t, "notfound")
        /\ UNCHANGED <<mode, ops>>

\* an UPDATE that also writes status_position
updateSetWithPosition(row, r) ==
    [row EXCEPT !.title = r.title, !.assignee = r.assignee, !.pos = r.req]

\* updateIssue: SET title, description, priority, assignee_id, due_date
updateSet(row, r) == [row EXCEPT !.title = r.title, !.assignee = r.assignee]

\* updateIssue: one UPDATE outside any transaction
UpdateExec(t) ==
    LET r == tx[t]
    IN  /\ r.pc = "update"
        /\ Ready(t)
        /\ IF Findable(db.issues, r.project, r.issue)
           THEN /\ db' = [db EXCEPT !.issues[r.issue] = updateSet(@, r)]
                /\ Return(t, r, "ok")
           ELSE Finish(t, "notfound")
        /\ UNCHANGED <<mode, ops>>

\* the query without AND archived_at IS NULL
listWhereAll(rows, p, s, a) ==
    {i \in DOMAIN rows :
        /\ rows[i].project = p
        /\ s # NoTarget => rows[i].status = s
        /\ a # 0 => rows[i].assignee = a}

\* listIssues: the WHERE clause built from the filters given
listWhere(rows, p, s, a) ==
    {i \in DOMAIN rows :
        /\ rows[i].project = p /\ ~rows[i].archived
        /\ s # NoTarget => rows[i].status = s
        /\ a # 0 => rows[i].assignee = a}

\* ORDER BY status_id, status_position ASC
OrderBefore(x, y) ==
    x.status < y.status \/ (x.status = y.status /\ x.pos <= y.pos)

RECURSIVE orderBy(_, _)
orderBy(rows, sel) ==
    IF sel = {} THEN <<>>
    ELSE LET i == CHOOSE i \in sel : \A j \in sel : OrderBefore(rows[i], rows[j])
         IN  <<[id |-> i, row |-> rows[i]]>> \o orderBy(rows, sel \ {i})

\* listIssues: one SELECT over the committed rows
listIssues(rows, p, s, a) == orderBy(rows, listWhere(rows, p, s, a))

ListExec(t) ==
    LET r == tx[t]
    IN  /\ r.pc = "list"
        /\ Return(t, [r EXCEPT !.out = listIssues(db.issues, r.project, r.target,
                                                  r.assignee)], "ok")
        /\ UNCHANGED <<db, mode, ops>>

\* the lookup of getIssue with AND archived_at IS NULL added
getWhereActive(rows, p, issue) ==
    issue \in DOMAIN rows /\ rows[issue].project = p /\ ~rows[issue].archived

\* getIssue: WHERE id = issue AND project_id = p
getWhere(rows, p, issue) == issue \in DOMAIN rows /\ rows[issue].project = p

\* getIssue: one SELECT over the committed rows
GetExec(t) ==
    LET r == tx[t]
    IN  /\ r.pc = "get"
        /\ IF getWhere(db.issues, r.project, r.issue)
           THEN Return(t, [r EXCEPT !.out = <<[id |-> r.issue,
                                               row |-> db.issues[r.issue]]>>], "ok")
           ELSE Return(t, r, "notfound")
        /\ UNCHANGED <<db, mode, ops>>

\* statuses.archiveStatus: one UPDATE of the status row outside any transaction
ArchiveStatusExec(t) ==
    LET r == tx[t]
    IN  /\ r.pc = "archstatus"
        /\ Ready(t)
        /\ IF /\ r.target \in Statuses /\ StatusProject(r.target) = r.project
              /\ r.target \notin db.archivedStatuses
           THEN /\ db' = [db EXCEPT !.archivedStatuses = @ \cup {r.target}]
                /\ Return(t, r, "ok")
           ELSE Finish(t, "statusnotfound")
        /\ UNCHANGED <<mode, ops>>

\* moveIssue run alone from the committed rows to its commit, statement after
\* statement, for a call c that names an active issue of its project
moveIssue(rows, c) ==
    LET row == rows[c.issue]
        p == c.project
        r0 == [IdleTx EXCEPT !.project = p, !.issue = c.issue, !.target = c.target,
                             !.req = c.req, !.src = row.status, !.spos = row.pos,
                             !.tgt = targetStatusID(c.target, row.status)]
        r1 == [r0 EXCEPT !.tpos = clampTargetPosition(CountActive(rows, p, r0.tgt),
                                                      r0.req, SameStatus(r0))]
        r == [r1 EXCEPT !.temp = NextPosition(rows, p, r1.src)]
        parked == parkUpdate(rows, p, r.issue, r.temp) @@ rows
        lifted == LiftStmt(parked, r) @@ parked
        landed == IF AfterPark(r) = "lift" THEN LandStmt(lifted, r) @@ lifted
                  ELSE parked
        gapped == openGapPhase1(landed, p, r.tgt, r.tpos) @@ landed
        opened == IF AfterPark(r) = "lift" /\ AfterLand(r) = "gaplift"
                  THEN openGapPhase2(gapped, p, r.tgt, r.tpos) @@ gapped
                  ELSE landed
    IN  IF SameStatus(r) /\ r.tpos = r.spos THEN rows
        ELSE placeUpdate(opened, p, r.issue, r.tgt, r.tpos) @@ opened

MoveStep(t) ==
    \/ MoveLoad(t)
    \/ MoveLockStatuses(t)
    \/ MoveLockIssues(t)
    \/ MoveClamp(t)
    \/ MoveParkSelect(t)
    \/ MoveParkUpdate(t)
    \/ MoveLift(t)
    \/ MoveLand(t)
    \/ MoveGapLift(t)
    \/ MoveGapLand(t)
    \/ MovePlace(t)

CreateStep(t) ==
    \/ CreateUpsert(t)
    \/ CreateInsertEval(t)
    \/ CreateInsertRow(t)
    \/ CreateForeignKey(t)

\* ---------------------------------------------------------- specifications
\* every operation, calls overlapping
Init == InitMode("full", 0 .. 2)
Next ==
    \E t \in TxIds :
        \/ Call(t)
        \/ MoveStep(t)
        \/ CreateStep(t)
        \/ ArchiveExec(t)
        \/ UpdateExec(t)
        \/ Commit(t)
        \/ DeadlockAbort(t)
        \/ MoveCancel(t)
Spec == Init /\ [][Next]_vars

\* every operation, one call at a time
InitSerial == InitMode("serial", 0 .. MaxSeed)
NextSerial ==
    \E t \in TxIds :
        \/ Call(t)
        \/ MoveStep(t)
        \/ CreateStep(t)
        \/ ArchiveExec(t)
        \/ UpdateExec(t)
        \/ Commit(t)
SpecSerial == InitSerial /\ [][NextSerial]_vars

\* MoveIssue calls only, overlapping
InitMoves == InitMode("moves", {MaxSeed})
NextMoves ==
    \E t \in TxIds :
        \/ Call(t)
        \/ MoveStep(t)
        \/ Commit(t)
        \/ DeadlockAbort(t)
SpecMoves == InitMoves /\ [][NextMoves]_vars

\* CreateIssue and MoveIssue calls only, overlapping, from empty statuses
\* a full board, the first two issues in status 1 and the others in status 2,
\* and overlapping moves, most of them within one status
InitApart ==
    /\ InitMode("apart", {MaxIssues})
    /\ \A i \in DOMAIN db.issues : db.issues[i].status = IF i <= 2 THEN 1 ELSE 2
NextApart ==
    \E t \in TxIds :
        \/ Call(t)
        \/ MoveStep(t)
        \/ Commit(t)
        \/ DeadlockAbort(t)
SpecApart == InitApart /\ [][NextApart]_vars

\* MoveIssue and ArchiveIssue on a board of project 1 on which one issue may
\* already be archived, beside an issue of project 2
FrameDb(d, a) ==
    [d EXCEPT !.issues =
                  [i \in DOMAIN d.issues |->
                      [d.issues[i] EXCEPT !.archived = (i = a)]]
                  @@ [i \in {MaxIssues} |-> Row(2, SetMax(Statuses), 0, 1)],
              !.counter = [@ EXCEPT ![2] = 1]]

InitFrame ==
    /\ mode = "frame"
    /\ db \in {FrameDb(d, a) : d \in SeedDb(MaxSeed), a \in 0 .. MaxSeed}
    /\ tx = [t \in TxIds |-> IdleTx]
    /\ ops = 0
NextFrame ==
    \E t \in TxIds :
        \/ Call(t)
        \/ MoveStep(t)
        \/ ArchiveExec(t)
        \/ Commit(t)
        \/ DeadlockAbort(t)
SpecFrame == InitFrame /\ [][NextFrame]_vars

InitCreateMove == InitMode("cm", {0})
NextCreateMove ==
    \E t \in TxIds :
        \/ Call(t)
        \/ MoveStep(t)
        \/ CreateStep(t)
        \/ Commit(t)
        \/ DeadlockAbort(t)
SpecCreateMove == InitCreateMove /\ [][NextCreateMove]_vars

\* MoveIssue calls with every kind of argument, one call at a time
InitReads == InitMode("reads", {2})
NextReads ==
    \E t \in TxIds :
        \/ Call(t)
        \/ ListExec(t)
        \/ GetExec(t)
        \/ ArchiveExec(t)
        \/ UpdateExec(t)
        \/ CreateStep(t)
        \/ Commit(t)
SpecReads == InitReads /\ [][NextReads]_vars

InitErrors == InitMode("errors", {2})
NextErrors ==
    \E t \in TxIds :
        \/ Call(t)
        \/ MoveStep(t)
        \/ ArchiveExec(t)
        \/ ArchiveStatusExec(t)
        \/ Commit(t)
SpecErrors == InitErrors /\ [][NextErrors]_vars

\* ------------------------------------------------------------------ claims
ActiveRows(rows) == {i \in DOMAIN rows : ~rows[i].archived}
Column(rows, p, s) ==
    {i \in ActiveRows(rows) : rows[i].project = p /\ rows[i].status = s}
ColumnPositions(rows, p, s) == {rows[i].pos : i \in Column(rows, p, s)}
UniqueIn(rows, p, s) ==
    \A i, j \in Column(rows, p, s) : i # j => rows[i].pos # rows[j].pos
ContiguousIn(rows, p, s) ==
    /\ UniqueIn(rows, p, s)
    /\ ColumnPositions(rows, p, s) = 0 .. (Cardinality(Column(rows, p, s)) - 1)
DoneWith(t, op, res) ==
    tx[t].pc = "done" /\ tx[t].op = op /\ tx[t].result = res

\* C1: in every committed state, under every interleaving of CreateIssue,
\* MoveIssue, ArchiveIssue and UpdateIssue calls, no two active issues of the
\* same project and status have the same status_position.
C1_UniqueActivePositions ==
    \A p \in Projects : \A s \in Statuses : UniqueIn(db.issues, p, s)

\* a CreateIssue that overlapped a MoveIssue was refused by the unique index,
\* the move is committed and its column holds several active issues
C1_Witness ==
    \E t, u \in TxIds :
        /\ DoneWith(t, "create", "unique")
        /\ DoneWith(u, "move", "ok")
        /\ Cardinality(Column(db.issues, 1, tx[t].target)) >= 2

\* C2: after every MoveIssue that commits, from any reachable committed
\* state, the active issues of the source status and of the target status have
\* positions exactly 0 .. N-1, N being the number of active issues there.
C2_ContiguousAfterMove ==
    \A t \in TxIds :
        DoneWith(t, "move", "ok") =>
            /\ ContiguousIn(db.issues, tx[t].project, tx[t].src)
            /\ ContiguousIn(db.issues, tx[t].project, tx[t].tgt)

\* C3: in an execution made only of CreateIssue and MoveIssue calls, serial or
\* overlapping, from empty statuses, every committed state has in every status
\* active positions exactly 0 .. N-1.
C3_ContiguousCreateMove ==
    \A p \in Projects : \A s \in Statuses : ContiguousIn(db.issues, p, s)

Min(a, b) == IF a < b THEN a ELSE b
Max(a, b) == IF a > b THEN a ELSE b

\* the step in which the MoveIssue of t commits
MoveCommits(t) ==
    /\ tx[t].op = "move" /\ tx[t].pc = "commit"
    /\ tx'[t].pc = "done" /\ tx'[t].result = "ok"

\* the status a call names: its target, or the issue's status when none is given
NamedStatus(rows, c) ==
    IF c.target = NoTarget THEN rows[c.issue].status ELSE c.target

ColumnSeq(rows, p, s) ==
    [k \in 1 .. Cardinality(Column(rows, p, s)) |->
        CHOOSE i \in Column(rows, p, s) : rows[i].pos = k - 1]
Remove(seq, x) == SelectSeq(seq, LAMBDA y : y # x)
\* x becomes the element at index k, counted from 0
InsertAt(seq, k, x) == SubSeq(seq, 1, k) \o <<x>> \o SubSeq(seq, k + 1, Len(seq))
Moved(rows, after, S) == {j \in S : after[j].pos # rows[j].pos}
MovedByOne(rows, after, S) ==
    \A j \in Moved(rows, after, S) :
        after[j].pos - rows[j].pos \in {-1, 1}

C5_WitnessUp ==
    \E t \in TxIds :
        /\ DoneWith(t, "move", "ok") /\ tx[t].src = tx[t].tgt
        /\ tx[t].spos = 2 /\ tx[t].tpos = 0
        /\ db.issues[tx[t].issue].pos = 0
C5_WitnessDown ==
    \E t \in TxIds :
        /\ DoneWith(t, "move", "ok") /\ tx[t].src = tx[t].tgt
        /\ tx[t].spos = 0 /\ tx[t].tpos = 2
        /\ db.issues[tx[t].issue].pos = 2
LockWait(t) ==
    IF tx[t].op = "move" /\ tx[t].pc \in {"load", "lockst", "lockis"}
    THEN {u \in WaitsFor(t) : tx[u].op = "move"} ELSE {}

\* C6: concurrent MoveIssue calls whose status sets overlap never deadlock: in
\* no reachable state is there a set of move transactions each waiting for a
\* row lock held by another member of the set.
C6_NoDeadlock ==
    \A D \in SUBSET TxIds :
        D # {} => \E t \in D : LockWait(t) \cap D = {}

MoveTxs == {t \in TxIds : tx[t].op = "move"}
DistinctIssues(T) == \A t, u \in T : t # u => tx[t].issue # tx[u].issue
AllDone(T) == \A t \in T : tx[t].pc = "done"
AllOk(T) == \A t \in T : tx[t].pc = "done" /\ tx[t].result = "ok"
\* the status the issue of t's call was in when the call was made
Origin(t) ==
    IF tx[t].pc = "load" THEN db.issues[tx[t].issue].status ELSE tx[t].src
IssuesOf(T) == {tx[t].issue : t \in T}

\* C7: for any number of MoveIssue calls launched concurrently, each moving a
\* distinct active issue of status Todo (1) to position 0 of status Doing (2),
\* every call completes without error, and in the final state Todo holds none
\* of the moved issues and Doing holds them at positions 0 .. N-1.
C7_AllToDoing ==
    /\ \A t \in MoveTxs : tx[t].target = 2 /\ tx[t].req = 0 /\ Origin(t) = 1
    /\ DistinctIssues(MoveTxs)
    => /\ \A t \in MoveTxs : tx[t].pc = "done" => tx[t].result = "ok"
       /\ AllDone(MoveTxs) =>
             /\ IssuesOf(MoveTxs) \subseteq Column(db.issues, 1, 2)
             /\ Column(db.issues, 1, 1) \cap IssuesOf(MoveTxs) = {}
             /\ ContiguousIn(db.issues, 1, 1)
             /\ ContiguousIn(db.issues, 1, 2)

\* what C8 promises of the committed state once every call has returned
Converged ==
    /\ \A s \in Statuses : ContiguousIn(db.issues, 1, s)
    /\ {i \in ActiveRows(db.issues) : db.issues[i].project = 1} = 1 .. MaxSeed
    /\ \A t \in MoveTxs : db.issues[tx[t].issue].status = tx[t].target

C9_NoOpIdentical ==
    [][\A t \in TxIds :
          LET c == tx[t]
              S == db.issues[c.issue].status
          IN  /\ MoveCommits(t)
              /\ NamedStatus(db.issues, c) = S
              /\ c.req = db.issues[c.issue].pos
              => /\ Column(db'.issues, c.project, S) = Column(db.issues, c.project, S)
                 /\ \A i \in Column(db.issues, c.project, S) :
                        db'.issues[i] = db.issues[i]]_vars

\* the step in which the MoveIssue call of t returns
MoveReturns(t) ==
    /\ tx'[t].op = "move" /\ tx'[t].pc = "done"
    /\ tx[t].pc # "done" \/ ops' # ops

\* no active issue with this id in this project
Missing(rows, p, issue) ==
    \/ issue \notin DOMAIN rows
    \/ rows[issue].archived
    \/ rows[issue].project # p

\* C10 as stated: MoveIssue returns IssueNotFound, and leaves the store
\* unchanged, whenever the named issue does not exist, is archived, or
\* belongs to a project other than the one named in the call.
C10_NotFound ==
    [][\A t \in TxIds :
          MoveReturns(t) /\ Missing(db.issues, tx'[t].project, tx'[t].issue)
              => tx'[t].result = "notfound" /\ db' = db]_vars

\* C10 for calls that pass validation (ids not empty, position not negative):
\* the same conclusion.
C10_NotFoundWhenValid ==
    [][\A t \in TxIds :
          /\ MoveReturns(t)
          /\ tx'[t].project # 0 /\ tx'[t].issue # 0 /\ tx'[t].req >= 0
          /\ Missing(db.issues, tx'[t].project, tx'[t].issue)
          => tx'[t].result = "notfound" /\ db' = db]_vars

\* IssueNotFound returned for an issue that exists: archived, or of another
\* project than the one the call names
C10_WitnessArchived ==
    \E t \in TxIds :
        /\ DoneWith(t, "move", "notfound")
        /\ tx[t].issue \in DOMAIN db.issues
        /\ db.issues[tx[t].issue].archived
        /\ db.issues[tx[t].issue].project = tx[t].project
C10_Witness ==
    \E t \in TxIds :
        /\ DoneWith(t, "move", "notfound")
        /\ tx[t].issue \in DOMAIN db.issues
        /\ ~db.issues[tx[t].issue].archived
        /\ db.issues[tx[t].issue].project # tx[t].project

\* g names a status, and it is no status of project p
NotOfProject(p, g) ==
    g # NoTarget /\ (g \notin Statuses \/ StatusProject(g) # p)
\* the call of t passed MoveIssueParams.Validate
PassedValidation(c) == c.project # 0 /\ c.issue # 0 /\ c.req >= 0

C11_WitnessUnknown ==
    \E t \in TxIds :
        DoneWith(t, "move", "status") /\ tx[t].target = UnknownStatus

\* C12: a MoveIssue whose target status exists in the project but is archived
\* is rejected with StatusInvalid and moves nothing.
C12_ArchivedStatusRejected ==
    [][\A t \in TxIds :
          /\ MoveReturns(t) /\ PassedValidation(tx'[t])
          /\ ~Missing(db.issues, tx'[t].project, tx'[t].issue)
          /\ tx'[t].target \in db.archivedStatuses
          /\ ~NotOfProject(tx'[t].project, tx'[t].target)
          => tx'[t].result = "status" /\ db' = db]_vars

\* C13: MoveIssue with requested position < 0, or with an empty project id or
\* issue id, returns a validation error before any transaction is opened: it
\* returns in the step of the call, holds no lock, has written nothing and
\* the store is unchanged; a negative position is never clamped to 0.
C13_ValidationFirst ==
    [][\A t \in TxIds :
          tx'[t].op = "move" /\ ~PassedValidation(tx'[t]) =>
              /\ tx'[t].pc = "done" /\ tx'[t].result = "validation"
              /\ tx'[t].ilocks = {} /\ tx'[t].slocks = {} /\ tx'[t].w = NoRows
              /\ tx'[t] # tx[t] => db' = db /\ ops' = ops + 1]_vars

\* a validation error for a negative position on an issue that could be moved
C13_Witness ==
    \E t \in TxIds :
        /\ DoneWith(t, "move", "validation")
        /\ tx[t].req < 0
        /\ ~Missing(db.issues, tx[t].project, tx[t].issue)
C13_WitnessEmptyId ==
    \E t \in TxIds :
        /\ DoneWith(t, "move", "validation")
        /\ tx[t].req >= 0 /\ (tx[t].project = 0 \/ tx[t].issue = 0)

\* the call c with its target status written out
Explicit(rows, c) == [c EXCEPT !.target = NamedStatus(rows, c)]

\* C14: MoveIssue with an empty target status behaves exactly as the same
\* call with the target status set to the issue's current status: same clamp
\* (max_pos = N - 1), same final state, and the issue's status is unchanged.
C14_EmptyTargetIsCurrent ==
    [][\A t \in TxIds :
          MoveCommits(t) =>
              LET c == tx[t]
                  S == db.issues[c.issue].status
                  N == Cardinality(Column(db.issues, c.project, S))
              IN  /\ db'.issues = moveIssue(db.issues, Explicit(db.issues, c))
                  /\ c.target = NoTarget =>
                        /\ db'.issues[c.issue].status = S
                        /\ db'.issues[c.issue].pos = Min(c.req, Max(N - 1, 0))]_vars

\* a committed move without target status that changed the issue's position
C14_Witness ==
    \E t \in TxIds :
        /\ DoneWith(t, "move", "ok") /\ tx[t].target = NoTarget
        /\ tx[t].spos # tx[t].tpos
        /\ db.issues[tx[t].issue].status = tx[t].src
        /\ db.issues[tx[t].issue].pos = tx[t].tpos

\* the step in which the MoveIssue of t, begun earlier, returns an error
MoveFails(t) ==
    /\ tx[t].op = "move" /\ Running(t)
    /\ tx'[t].pc = "done" /\ tx'[t].result # "ok"
\* the step in which a call returns without error
ReturnsOk(t) == Running(t) /\ tx'[t].pc = "done" /\ tx'[t].result = "ok"

\* C15: a MoveIssue that fails at any step after it began, or whose context
\* is cancelled, leaves the committed state exactly as it was before the
\* call; no partial effect is ever committed: the committed state changes
\* only in the step in which a call returns without error.
C15_FailureRollsBack ==
    [][/\ \A t \in TxIds : MoveFails(t) => db' = db
       /\ db' # db => \E t \in TxIds : ReturnsOk(t)]_vars

\* a move that had written row versions (parked, lifted) and then failed
C15_Witness ==
    \E t \in TxIds :
        /\ DoneWith(t, "move", "cancelled")
        /\ tx[t].temp > 0 /\ tx[t].spos # tx[t].tpos
        /\ db.issues[tx[t].issue].pos = tx[t].spos
        /\ db.issues[tx[t].issue].status = tx[t].src
C15_WitnessDeadlock == \E t \in TxIds : DoneWith(t, "move", "deadlock")

\* the step in which the CreateIssue of t commits
CreateCommits(t) ==
    /\ tx[t].op = "create" /\ tx[t].pc = "commit"
    /\ tx'[t].pc = "done" /\ tx'[t].result = "ok"
\* the numbers of the issues of project p, archived ones included
NumbersOf(rows, p) == {rows[i].number : i \in {j \in DOMAIN rows : rows[j].project = p}}
MaxOf(S) == CHOOSE x \in S : \A y \in S : y <= x

\* C16: under serial execution each successful CreateIssue in a project
\* returns the number of the previous successful CreateIssue in that project
\* plus 1, the first returning 1 when the project has no counter row.
C16_SerialNumbers ==
    [][\A t \in TxIds :
          CreateCommits(t) =>
              LET p == tx[t].project
                  prev == NumbersOf(db.issues, p)
                  id == tx'[t].newid
              IN  /\ tx'[t].number = IF prev = {} THEN 1 ELSE MaxOf(prev) + 1
                  /\ id \notin DOMAIN db.issues
                  /\ db'.issues[id].number = tx'[t].number
                  /\ db'.issues[id].project = p]_vars

\* a second CreateIssue in a row has committed; the project holds numbers 1, 2
C16_Witness ==
    /\ \E t \in TxIds : DoneWith(t, "create", "ok") /\ tx[t].number = 2
    /\ ops = 2
    /\ NumbersOf(db.issues, 1) = {1, 2}

CreateTxs == {t \in TxIds : tx[t].op = "create"}

\* C17: two CreateIssue calls running concurrently in the same project that
\* both succeed return distinct numbers n and n+1 for some n, in every
\* interleaving of their statements.
C17_ConcurrentNumbers ==
    \A t, u \in CreateTxs :
        /\ CreateTxs = {t, u} /\ t # u
        /\ AllOk({t, u}) /\ tx[t].project = tx[u].project
        => tx[t].number - tx[u].number \in {-1, 1}

\* both succeeded, and the call made first got the greater number: the second
\* call took the counter while the first had begun and not yet reached it
C17_Witness ==
    \E t, u \in CreateTxs :
        /\ t < u /\ AllOk({t, u}) /\ tx[t].project = tx[u].project
        /\ tx[t].number = tx[u].number + 1

\* C18: across the sequence of committed states a project's last_number
\* never decreases, an issue committed later has a strictly greater number
\* than every issue of its project committed before, and no operation other
\* than CreateIssue changes an issue's number or the counter.
C18_NumbersMonotonic ==
    [][/\ \A p \in Projects : db'.counter[p] >= db.counter[p]
       /\ \A i \in DOMAIN db.issues :
             /\ i \in DOMAIN db'.issues
             /\ db'.issues[i].number = db.issues[i].number
       /\ \A i \in DOMAIN db'.issues \ DOMAIN db.issues :
             /\ \A j \in DOMAIN db.issues :
                   db.issues[j].project = db'.issues[i].project
                       => db'.issues[i].number > db.issues[j].number
             /\ \E t \in TxIds : CreateCommits(t) /\ tx'[t].newid = i
       /\ db'.counter # db.counter => \E t \in TxIds : CreateCommits(t)]_vars

\* two creates have committed one after the other, the counter stands at the
\* number of the later one, and a MoveIssue has committed as well
C18_Witness ==
    \E t \in CreateTxs, i, j \in DOMAIN db.issues :
        /\ DoneWith(t, "create", "ok") /\ tx[t].newid = j /\ i # j
        /\ db.issues[i].project = db.issues[j].project
        /\ db.issues[j].number = db.issues[i].number + 1
        /\ db.counter[db.issues[j].project] = db.issues[j].number
        /\ \E u \in TxIds : DoneWith(u, "move", "ok") /\ tx[u].issue = i
                              /\ tx[u].spos # tx[u].tpos

\* C19: a successful CreateIssue into status S returns and stores
\* status_position = 1 + the greatest position among the active issues of S
\* in that project, or 0 when S has no active issue; archived issues are not
\* counted, so the new issue is the last of S and the next serial creation
\* into S gets the position after it.
C19_CreatedAtEnd ==
    [][\A t \in TxIds :
          CreateCommits(t) =>
              LET i == tx[t].newid
                  before == ColumnPositions(db.issues, tx[t].project, tx[t].target)
                  after == ColumnPositions(db'.issues, tx[t].project, tx[t].target)
              IN  /\ i \in DOMAIN db'.issues /\ i \notin DOMAIN db.issues
                  /\ db'.issues[i].status = tx[t].target
                  /\ ~db'.issues[i].archived
                  /\ db'.issues[i].pos = IF before = {} THEN 0 ELSE MaxOf(before) + 1
                  /\ tx'[t].temp = db'.issues[i].pos
                  /\ db'.issues[i].pos = MaxOf(after)]_vars

\* an issue was created into a status that holds active issues and an
\* archived issue at or beyond the position the new issue got
C19_Witness ==
    \E t \in CreateTxs, j \in DOMAIN db.issues :
        /\ DoneWith(t, "create", "ok") /\ tx[t].newid \in DOMAIN db.issues
        /\ db.issues[j].archived /\ db.issues[j].status = tx[t].target
        /\ db.issues[j].pos >= db.issues[tx[t].newid].pos
        /\ db.issues[tx[t].newid].pos > 0

\* an issue was created into a status without active issues
C19_WitnessEmpty ==
    \E t \in CreateTxs :
        /\ DoneWith(t, "create", "ok") /\ tx[t].newid \in DOMAIN db.issues
        /\ db.issues[tx[t].newid].pos = 0
        /\ Cardinality(DOMAIN db.issues) > 1

\* the step in which the CreateIssue of t returns an error
CreateFails(t) ==
    /\ tx[t].op = "create" /\ tx[t].pc # "done"
    /\ tx'[t].pc = "done" /\ tx'[t].result # "ok"
\* the step in which a CreateIssue call is refused by validation
CreateRefused(t) ==
    /\ tx'[t].op = "create" /\ tx'[t].pc = "done" /\ tx'[t].result = "validation"
    /\ tx[t] # tx'[t]
StoreRejections == {"integrity", "unique", "check", "deadlock"}

\* C20: a CreateIssue that fails leaves the committed state unchanged, the
\* project counter included: a call refused by validation (project, status
\* or title missing) touches nothing, and a call whose INSERT the store rejects
\* had incremented the counter in its transaction and leaves the committed
\* counter at the value before the call.
C20_FailedCreateChangesNothing ==
    [][\A t \in TxIds :
          /\ CreateFails(t) =>
                /\ db' = db
                /\ tx'[t].result \in StoreRejections
                /\ tx[t].number = db.counter[tx[t].project] + 1
                /\ db'.counter[tx[t].project] = tx[t].number - 1
          /\ CreateRefused(t) =>
                /\ db' = db
                /\ tx'[t].number = 0 /\ tx'[t].newid = 0
                /\ tx'[t].project = 0 \/ tx'[t].target = NoTarget \/ tx'[t].title = 0]_vars

\* a CreateIssue into a status of another project was rejected by the store
\* after it had taken the next number, and the counter is where it was
C20_Witness ==
    \E t \in TxIds :
        /\ DoneWith(t, "create", "integrity")
        /\ tx[t].number = db.counter[tx[t].project] + 1 /\ tx[t].number > 1
\* a CreateIssue was rejected by the unique index
C20_WitnessUnique ==
    \E t \in TxIds :
        /\ DoneWith(t, "create", "unique")
        /\ tx[t].number = db.counter[tx[t].project] + 1
\* a CreateIssue without title was refused
C20_WitnessValidation ==
    \E t \in TxIds : DoneWith(t, "create", "validation") /\ tx[t].title = 0

\* the status of row i is a status of the project of row i
OwnStatus(rows, i) ==
    rows[i].status \in Statuses /\ StatusProject(rows[i].status) = rows[i].project

\* C21: in every committed state each issue's status is a status of the
\* issue's own project, whatever CreateIssue and MoveIssue calls were made,
\* and no step changes the project of a committed issue.
C21_StatusOfOwnProject ==
    /\ [](\A i \in DOMAIN db.issues : OwnStatus(db.issues, i))
    /\ [][\A i \in DOMAIN db.issues :
             /\ i \in DOMAIN db'.issues
             /\ db'.issues[i].project = db.issues[i].project]_vars

\* a CreateIssue into a status of another project and a MoveIssue to a status
\* of another project have both been refused
C21_Witness ==
    \E t, u \in TxIds :
        /\ DoneWith(t, "create", "integrity")
        /\ StatusProject(tx[t].target) # tx[t].project
        /\ DoneWith(u, "move", "status")
        /\ StatusProject(tx[u].target) # tx[u].project

\* the ids a sequence of returned issues holds
IdsOf(out) == {out[k].id : k \in DOMAIN out}
\* issue i is an active issue of project p that passes the filters of call r
Listed(rows, r, i) ==
    /\ rows[i].project = r.project /\ ~rows[i].archived
    /\ r.target = NoTarget \/ rows[i].status = r.target
    /\ r.assignee = 0 \/ rows[i].assignee = r.assignee
\* the step in which operation op of t returns
Returns(t, op) == tx[t].op = op /\ tx[t].pc # "done" /\ tx'[t].pc = "done"

\* C22: ListIssues(project, [status], [assignee]) returns exactly the active
\* issues of the project that match the given filters, each once and as
\* stored, none archived and none of another project, ordered by status and
\* within one status by ascending status_position; it takes no lock and
\* changes nothing.
C22_ListIssues ==
    /\ [](\A t \in TxIds :
            DoneWith(t, "list", "ok") =>
                LET out == tx[t].out
                IN  /\ IdsOf(out) = {i \in DOMAIN db.issues : Listed(db.issues, tx[t], i)}
                    /\ Len(out) = Cardinality(IdsOf(out))
                    /\ \A k \in DOMAIN out : out[k].row = db.issues[out[k].id]
                    /\ \A k, l \in DOMAIN out :
                          k < l =>
                              \/ out[k].row.status < out[l].row.status
                              \/ /\ out[k].row.status = out[l].row.status
                                 /\ out[k].row.pos < out[l].row.pos)
    /\ [][\A t \in TxIds :
             Returns(t, "list") =>
                 /\ db' = db
                 /\ tx'[t].ilocks = {} /\ tx'[t].slocks = {}
                 /\ tx'[t].kshare = {} /\ tx'[t].clock = {}
                 /\ tx[t].ilocks = {} /\ tx[t].slocks = {}]_vars

\* a list of project 1 left out an archived issue and an issue of project 2
C22_Witness ==
    \E t \in TxIds, i, j \in DOMAIN db.issues :
        /\ DoneWith(t, "list", "ok") /\ tx[t].project = 1
        /\ Len(tx[t].out) = 1
        /\ db.issues[i].archived /\ db.issues[i].project = 1
        /\ db.issues[j].project = 2
\* a list with both filters returned two issues in the order of their
\* positions, which is not the order of their ids
C22_WitnessOrder ==
    \E t \in TxIds :
        /\ DoneWith(t, "list", "ok")
        /\ tx[t].target # NoTarget /\ tx[t].assignee # 0
        /\ Len(tx[t].out) = 2 /\ tx[t].out[1].id > tx[t].out[2].id

\* the GetIssue call of t named a project and an issue
GetNamed(t) == tx[t].op = "get" /\ tx[t].pc = "done" /\ tx[t].result # "validation"

\* C23: GetIssue(project, issue) returns the issue, as stored, whether it is
\* active or archived, and returns IssueNotFound when the issue does not exist
\* or belongs to another project.
C23_GetIssue ==
    \A t \in TxIds :
        GetNamed(t) =>
            IF tx[t].issue \in DOMAIN db.issues
               /\ db.issues[tx[t].issue].project = tx[t].project
            THEN /\ tx[t].result = "ok"
                 /\ tx[t].out = <<[id |-> tx[t].issue, row |-> db.issues[tx[t].issue]]>>
            ELSE tx[t].result = "notfound" /\ tx[t].out = <<>>

\* an archived issue was returned, marked archived
C23_Witness ==
    \E t \in TxIds :
        /\ DoneWith(t, "get", "ok")
        /\ tx[t].out[1].row.archived /\ db.issues[tx[t].issue].archived
\* an issue of another project was not found
C23_WitnessOtherProject ==
    \E t \in TxIds :
        /\ DoneWith(t, "get", "notfound")
        /\ tx[t].issue \in DOMAIN db.issues
        /\ db.issues[tx[t].issue].project # tx[t].project
\* an issue that does not exist was not found
C23_WitnessMissing ==
    \E t \in TxIds :
        DoneWith(t, "get", "notfound") /\ tx[t].issue \notin DOMAIN db.issues

\* issue i exists in project p and is not archived
ActiveOf(rows, p, i) == i \in DOMAIN rows /\ rows[i].project = p /\ ~rows[i].archived

\* C24: ArchiveIssue on an active issue of the named project makes it
\* archived; on an issue that is missing, in another project or already
\* archived it returns IssueNotFound and changes nothing, so a second archive
\* of an issue fails; an archived issue stays archived.
C24_ArchiveIssue ==
    [][/\ \A t \in TxIds :
             Returns(t, "archive") =>
                 IF ActiveOf(db.issues, tx[t].project, tx[t].issue)
                 THEN /\ tx'[t].result = "ok"
                      /\ db'.issues[tx[t].issue].archived
                 ELSE tx'[t].result = "notfound" /\ db' = db
       /\ \A i \in DOMAIN db.issues :
             db.issues[i].archived => i \in DOMAIN db'.issues /\ db'.issues[i].archived]_vars

\* the second ArchiveIssue of an issue returned IssueNotFound
C24_Witness ==
    \E t \in TxIds :
        /\ DoneWith(t, "archive", "notfound")
        /\ tx[t].issue \in DOMAIN db.issues
        /\ db.issues[tx[t].issue].project = tx[t].project
        /\ db.issues[tx[t].issue].archived
\* an active issue was archived
C24_WitnessArchived ==
    \E t \in TxIds :
        /\ DoneWith(t, "archive", "ok") /\ db.issues[tx[t].issue].archived
\* ArchiveIssue under another project's id returned IssueNotFound
C24_WitnessOtherProject ==
    \E t \in TxIds :
        /\ DoneWith(t, "archive", "notfound")
        /\ tx[t].issue \in DOMAIN db.issues
        /\ db.issues[tx[t].issue].project # tx[t].project
        /\ ~db.issues[tx[t].issue].archived

\* C25: ArchiveIssue changes only archived_at of the archived issue: every
\* other issue, and the archived issue's own status, position and number, are
\* unchanged, so when a later active issue exists in the status the former
\* position stays unused in the active sequence.
C25_ArchiveFrame ==
    [][\A t \in TxIds :
          Returns(t, "archive") /\ tx'[t].result = "ok" =>
              LET i == tx[t].issue
                  old == db.issues[i]
              IN  /\ DOMAIN db'.issues = DOMAIN db.issues
                  /\ \A j \in DOMAIN db.issues \ {i} : db'.issues[j] = db.issues[j]
                  /\ db'.issues[i] = [old EXCEPT !.archived = TRUE]
                  /\ db'.counter = db.counter
                  /\ (\E j \in Column(db.issues, old.project, old.status) :
                          db.issues[j].pos > old.pos)
                      => /\ old.pos \notin ColumnPositions(db'.issues, old.project, old.status)
                         /\ ~ContiguousIn(db'.issues, old.project, old.status)]_vars

\* an issue that was not last in its status was archived: its position is
\* free and a later active issue is still above it
C25_Witness ==
    \E t \in TxIds :
        /\ DoneWith(t, "archive", "ok")
        /\ LET old == db.issues[tx[t].issue]
           IN  /\ old.archived
               /\ old.pos \notin ColumnPositions(db.issues, old.project, old.status)
               /\ \E j \in Column(db.issues, old.project, old.status) :
                     db.issues[j].pos > old.pos

C26_WitnessUpdated ==
    \E t \in TxIds :
        /\ DoneWith(t, "update", "ok")
        /\ db.issues[tx[t].issue].assignee = 1 /\ db.issues[tx[t].issue].pos > 0
\* UpdateIssue under another project's id returned IssueNotFound
C26_WitnessOtherProject ==
    \E t \in TxIds :
        /\ DoneWith(t, "update", "notfound")
        /\ tx[t].issue \in DOMAIN db.issues
        /\ db.issues[tx[t].issue].project # tx[t].project

\* an archived issue other than i holds the status and position of issue i
OnArchivedPlace(rows, i) ==
    \E j \in DOMAIN rows \ {i} :
        /\ rows[j].archived /\ rows[j].project = rows[i].project
        /\ rows[j].status = rows[i].status /\ rows[j].pos = rows[i].pos

\* C27: archived issues take no part in positioning: no step changes a row
\* that is archived and no statement of a transaction writes one; a committed
\* move places the issue within the number of active issues of its status and
\* a committed create appends after the greatest active position; and, calls
\* being made one after the other, no CreateIssue or MoveIssue is refused by
\* the unique index or the position check, a place held by an archived issue
\* being free for an active one.
C27_ArchivedIsolated ==
    [][/\ \A i \in DOMAIN db.issues :
             db.issues[i].archived => db'.issues[i] = db.issues[i]
       /\ \A t \in TxIds : \A i \in DOMAIN tx'[t].w \cap DOMAIN db.issues :
             ~db.issues[i].archived
       /\ \A t \in TxIds :
             /\ MoveCommits(t) =>
                   LET placed == db'.issues[tx[t].issue]
                   IN  /\ ~placed.archived
                       /\ placed.pos <= Cardinality(Column(db.issues, placed.project,
                                                           placed.status))
             /\ CreateCommits(t) =>
                   LET before == ColumnPositions(db.issues, tx[t].project, tx[t].target)
                   IN  db'.issues[tx[t].newid].pos =
                           IF before = {} THEN 0 ELSE MaxOf(before) + 1
             /\ tx[t].pc # "done" /\ tx'[t].pc = "done" /\ tx[t].op \in {"move", "create"}
                   => tx'[t].result \notin {"unique", "check"}]_vars

\* a committed move put the issue at the status and position of an archived issue
C27_Witness ==
    \E t \in TxIds :
        /\ DoneWith(t, "move", "ok")
        /\ tx[t].src # tx[t].tgt \/ tx[t].spos # tx[t].tpos
        /\ ~db.issues[tx[t].issue].archived
        /\ OnArchivedPlace(db.issues, tx[t].issue)
\* a committed create put the new issue at the status and position of an
\* archived issue
C27_WitnessCreate ==
    \E t \in TxIds :
        /\ DoneWith(t, "create", "ok") /\ tx[t].newid \in DOMAIN db.issues
        /\ OnArchivedPlace(db.issues, tx[t].newid)

\* C28: within one MoveIssue transaction locks are taken in the order status
\* rows first, then issue rows: a transaction that holds the lock of an issue
\* row holds the locks of its source and target status rows.
C28_StatusLocksFirst ==
    \A t \in TxIds :
        tx[t].op = "move" /\ tx[t].pc # "done" /\ tx[t].ilocks # {}
            => {tx[t].src, tx[t].tgt} \subseteq tx[t].slocks

\* C29: no MoveIssue transaction ever meets a violation of the unique index
\* on (project, status, position), in any interleaving of MoveIssue calls
\* with other MoveIssue, CreateIssue and ArchiveIssue calls.
C29_MoveNeverUnique ==
    \A t \in TxIds : ~DoneWith(t, "move", "unique")

\* a MoveIssue into a status committed although a CreateIssue into the same
\* status had written the position the move went on to use: the create waited
\* for the status row, the move for the index entry, and the store aborted
\* the create
C29_Witness ==
    \E t, u \in TxIds :
        /\ DoneWith(t, "move", "ok") /\ DoneWith(u, "create", "deadlock")
        /\ tx[u].target = tx[t].tgt /\ tx[u].temp = tx[t].tpos
        /\ tx[u].newid # 0
\* two MoveIssue calls into the same status, one of them from another status,
\* have both committed
C29_WitnessMoves ==
    \E t, u \in TxIds :
        /\ t # u /\ DoneWith(t, "move", "ok") /\ DoneWith(u, "move", "ok")
        /\ tx[t].tgt = tx[u].tgt /\ tx[t].issue # tx[u].issue
        /\ tx[t].spos # tx[t].tpos /\ tx[u].src # tx[u].tgt

ShiftPcs == {"lift", "land", "gaplift", "gapland"}
MoveStmtPcs == {"parkupd", "place"} \cup ShiftPcs
\* the rows as the statements of t see them
Seen(w, rows) == w @@ rows

C30_WitnessGap ==
    \E t \in TxIds :
        /\ tx[t].op = "move" /\ tx[t].pc = "gapland"
        /\ Cardinality({i \in DOMAIN tx[t].w : tx[t].w[i].pos >= reorderOffset}) >= 2

\* C31: no committed state shows an intermediate position of a move: no
\* active issue is committed at a lifted position (>= K = reorderOffset), and
\* a move that commits leaves the moved issue at its target position in its
\* target status, not at the parked position MAX+1 of its source status.
C31_NoIntermediateCommitted ==
    /\ [](\A i \in ActiveRows(db.issues) :
            0 <= db.issues[i].pos /\ db.issues[i].pos < reorderOffset)
    /\ [][\A t \in TxIds :
             MoveCommits(t) =>
                 LET old == db.issues[tx[t].issue]
                     new == db'.issues[tx[t].issue]
                     parked == MaxOf(ColumnPositions(db.issues, old.project, old.status)) + 1
                 IN  /\ new.status = NamedStatus(db.issues, tx[t])
                     /\ new.pos = tx[t].tpos
                     /\ ~(new.status = old.status /\ new.pos = parked)]_vars

\* while a move stands between a lift and its land, with rows at K and above
\* in its own view, the committed rows are all below K
C31_Witness ==
    \E t \in TxIds :
        /\ tx[t].op = "move" /\ tx[t].pc \in {"land", "gapland"}
        /\ \E i \in DOMAIN tx[t].w :
              tx[t].w[i].pos >= reorderOffset /\ db.issues[i].pos < reorderOffset
        /\ tx[t].w[tx[t].issue].pos = tx[t].temp
        /\ db.issues[tx[t].issue].pos = tx[t].spos /\ tx[t].spos # tx[t].temp
\* a move that parked its issue has committed
C31_WitnessCommitted ==
    \E t \in TxIds :
        /\ DoneWith(t, "move", "ok") /\ tx[t].temp > tx[t].tpos
        /\ tx[t].src # tx[t].tgt
        /\ db.issues[tx[t].issue].status = tx[t].tgt
        /\ db.issues[tx[t].issue].pos = tx[t].tpos

\* a move of t is under way or has ended after finding its issue
Found(t) ==
    /\ tx[t].op = "move"
    /\ \/ tx[t].pc = "load" /\ ActiveOf(db.issues, tx[t].project, tx[t].issue)
       \/ tx[t].pc \notin {"idle", "load"} /\ tx[t].src # 0
\* the source and target status of the move of t
StatusSet(t) == {Origin(t), IF tx[t].target = NoTarget THEN Origin(t) ELSE tx[t].target}
Disjoint(t, u) ==
    /\ t # u /\ Found(t) /\ Found(u)
    /\ tx[t].project = tx[u].project
    /\ StatusSet(t) \cap StatusSet(u) = {}

\* C32: two concurrent MoveIssue calls of one project whose {source, target}
\* status sets are disjoint never wait for each other, hold no common lock,
\* write disjoint sets of rows, and, no third call being made, neither
\* returns an error.
C32_DisjointMovesParallel ==
    \A t, u \in TxIds :
        Disjoint(t, u) =>
            /\ u \notin WaitsFor(t)
            /\ tx[t].ilocks \cap tx[u].ilocks = {}
            /\ tx[t].slocks \cap tx[u].slocks = {}
            /\ DOMAIN tx[t].w \cap DOMAIN tx[u].w = {}
            /\ tx[t].pc = "done" /\ MoveTxs = {t, u} => tx[t].result = "ok"

\* two moves with disjoint status sets have both done all their writes and
\* hold all their locks, neither having committed
C32_Witness ==
    \E t, u \in TxIds :
        /\ Disjoint(t, u)
        /\ tx[t].pc = "commit" /\ tx[u].pc = "commit"
        /\ Cardinality(DOMAIN tx[t].w) >= 2 /\ Cardinality(DOMAIN tx[u].w) >= 2

\* C33: the committed outcome of concurrent MoveIssue calls is that of the
\* committed calls run one at a time in commit order: every step that changes
\* the committed state is the commit of one move and changes it as that call
\* run alone on the state committed just before would, and the source
\* position, count-based clamp and park position the transaction worked with
\* are those of that state, not of an earlier one.
C33_SerialInCommitOrder ==
    [][/\ db' # db => \E t \in TxIds : MoveCommits(t)
       /\ \A t \in TxIds :
             MoveCommits(t) =>
                 LET c == tx[t]
                     old == db.issues[c.issue]
                     T == NamedStatus(db.issues, c)
                     N == Cardinality(Column(db.issues, c.project, T))
                     others == ColumnPositions(db.issues, c.project, old.status)
                 IN  /\ db'.issues = moveIssue(db.issues, c)
                     /\ db'.counter = db.counter
                     /\ c.src = old.status /\ c.spos = old.pos /\ c.tgt = T
                     /\ c.tpos = Min(c.req, IF T = old.status THEN Max(N - 1, 0) ELSE N)
                     /\ (c.tgt # c.src \/ c.tpos # c.spos) => c.temp = MaxOf(others) + 1]_vars

\* two moves out of or within one status have both committed, and the one
\* that committed later has shifted the issue the earlier one had placed
C33_Witness ==
    \E t, u \in MoveTxs :
        /\ t # u /\ AllOk({t, u}) /\ tx[t].issue # tx[u].issue
        /\ tx[u].src = tx[t].src
        /\ tx[u].spos # tx[u].tpos \/ tx[u].src # tx[u].tgt
        /\ tx[t].spos # tx[t].tpos \/ tx[t].src # tx[t].tgt
        /\ \E i \in DOMAIN db.issues :
              i = tx[u].issue /\ db.issues[i].pos # tx[u].tpos

\* a move waits for the row of its issue, which another move has locked and
\* already written
C33_WitnessWaiting ==
    \E t, u \in MoveTxs :
        /\ tx[t].pc = "load" /\ u \in WaitsFor(t)
        /\ tx[t].issue \in DOMAIN tx[u].w
        /\ tx[u].w[tx[t].issue].pos # db.issues[tx[t].issue].pos

\* only CreateIssue calls have been made
OnlyCreates == \A t \in TxIds : tx[t].op \in {"none", "create"}
\* the create of t has passed its counter upsert and has not returned
PastUpsert(t) == tx[t].op = "create" /\ Running(t) /\ tx[t].pc # "upsert"

\* C34: two CreateIssue calls running concurrently in one project are
\* serialized by the counter row: while one is between its upsert and its end
\* the other waits at its upsert, so its INSERT reads a state that includes the
\* first issue; two creations into the same (project, status) never take the
\* same position and neither fails with a unique violation.
C34_CreatesSerialized ==
    \A t, u \in CreateTxs :
        t # u /\ tx[t].project = tx[u].project =>
            /\ ~(PastUpsert(t) /\ PastUpsert(u))
            /\ PastUpsert(t) /\ tx[u].pc = "upsert" => t \in WaitsFor(u)
            /\ OnlyCreates =>
                  /\ tx[t].result # "unique"
                  /\ AllOk({t, u}) /\ tx[t].target = tx[u].target
                        => /\ tx[t].temp # tx[u].temp
                           /\ db.issues[tx[t].newid].pos # db.issues[tx[u].newid].pos

\* two creations into one status have both committed, the one called second
\* first, at consecutive positions
C34_Witness ==
    \E t, u \in CreateTxs :
        /\ t < u /\ AllOk({t, u}) /\ tx[t].target = tx[u].target
        /\ tx[t].temp = tx[u].temp + 1
        /\ db.issues[tx[t].newid].pos = db.issues[tx[u].newid].pos + 1
\* a creation waits at its upsert for one that has inserted its row
C34_WitnessWaiting ==
    \E t, u \in CreateTxs :
        /\ tx[u].pc = "upsert" /\ t \in WaitsFor(u)
        /\ tx[t].pc = "commit" /\ tx[t].target = tx[u].target

\* the issues of project p, archived ones included
AllOf(rows, p) == {i \in DOMAIN rows : rows[i].project = p}

\* C35: in every committed state reached through CreateIssue, the numbers of
\* a project's issues, active and archived, are exactly 1 .. last_number, each
\* borne by one issue: a CreateIssue that fails after its counter upsert
\* consumes no number.
C35_NumbersDense ==
    \A p \in Projects :
        /\ NumbersOf(db.issues, p) = 1 .. db.counter[p]
        /\ Cardinality(AllOf(db.issues, p)) = db.counter[p]

\* a CreateIssue failed after taking a number and a later CreateIssue was
\* given the same number, which is now the last number of the project
C35_Witness ==
    \E t, u \in CreateTxs :
        /\ DoneWith(t, "create", "integrity") /\ DoneWith(u, "create", "ok")
        /\ tx[t].project = tx[u].project
        /\ tx[t].number = tx[u].number /\ db.counter[tx[u].project] = tx[u].number
        /\ tx[u].number > 1

\* the active issues of project p
ActiveIssues(rows, p) == {i \in DOMAIN rows : rows[i].project = p /\ ~rows[i].archived}
\* the number of active issues of status s
CountOf(rows, p, s) == Cardinality(Column(rows, p, s))

\* C36: a committed MoveIssue changes only status_id of the moved issue and
\* status_position of active issues of its source and target status: no row
\* appears or disappears, rows of other statuses and projects and archived
\* rows are unchanged, numbers, archived flags and the counter are unchanged,
\* the project's active set is the same, a same-status move keeps the count
\* of its status, a cross-status move takes one from the source and gives one
\* to the target.
C36_MoveFrame ==
    [][\A t \in TxIds :
          MoveCommits(t) =>
              LET c == tx[t]
                  S == db.issues[c.issue].status
                  T == NamedStatus(db.issues, c)
              IN  /\ DOMAIN db'.issues = DOMAIN db.issues
                  /\ db'.counter = db.counter
                  /\ db'.issues[c.issue].status = T
                  /\ \A i \in DOMAIN db.issues :
                        LET old == db.issues[i]
                            new == db'.issues[i]
                        IN  /\ new = [old EXCEPT !.status = new.status, !.pos = new.pos]
                            /\ i # c.issue => new.status = old.status
                            /\ new # old =>
                                  /\ ~old.archived /\ old.project = c.project
                                  /\ old.status \in {S, T}
                  /\ ActiveIssues(db'.issues, c.project) = ActiveIssues(db.issues, c.project)
                  /\ IF S = T
                     THEN CountOf(db'.issues, c.project, S) = CountOf(db.issues, c.project, S)
                     ELSE /\ CountOf(db'.issues, c.project, S)
                                = CountOf(db.issues, c.project, S) - 1
                          /\ CountOf(db'.issues, c.project, T)
                                = CountOf(db.issues, c.project, T) + 1]_vars

\* a cross-status move that shifted another row has committed on a board
\* holding an archived issue and an issue of another project
C36_Witness ==
    \E t \in TxIds :
        /\ DoneWith(t, "move", "ok") /\ tx[t].src # tx[t].tgt
        /\ db.issues[tx[t].issue].status = tx[t].tgt
        /\ \E i \in ActiveIssues(db.issues, tx[t].project) :
              \/ db.issues[i].status = tx[t].src /\ db.issues[i].pos = tx[t].spos
              \/ db.issues[i].status = tx[t].tgt /\ db.issues[i].pos = tx[t].tpos + 1
        /\ \E i \in DOMAIN db.issues : db.issues[i].archived
        /\ \E i \in DOMAIN db.issues : db.issues[i].project # tx[t].project
\* a same-status move that shifted another row has committed
C36_WitnessSame ==
    \E t \in TxIds :
        /\ DoneWith(t, "move", "ok") /\ tx[t].src = tx[t].tgt
        /\ tx[t].spos # tx[t].tpos
        /\ db.issues[tx[t].issue].pos = tx[t].tpos
        /\ \E i \in ActiveIssues(db.issues, tx[t].project) :
              db.issues[i].status = tx[t].src /\ db.issues[i].pos = tx[t].spos

\* transaction t, which named issue i, ends in this step
EndsOn(t, i) ==
    /\ tx[t].issue = i /\ tx[t].op \in {"move", "update", "archive"}
    /\ tx[t].pc # "done" /\ tx'[t].pc = "done"

\* C37: archived is terminal. From a committed state in which an issue is
\* archived, no step of any CreateIssue, MoveIssue, UpdateIssue or
\* ArchiveIssue makes it active again or changes its status_id or
\* status_position; no transaction holds an uncommitted write of it; and a
\* call that names it ends without effect, with IssueNotFound unless its
\* parameters were refused or its context was cancelled.
C37_ArchivedTerminal ==
    [][\A i \in DOMAIN db.issues :
          db.issues[i].archived =>
              /\ i \in DOMAIN db'.issues
              /\ db'.issues[i].archived
              /\ db'.issues[i].status = db.issues[i].status
              /\ db'.issues[i].pos = db.issues[i].pos
              /\ \A t \in TxIds :
                    /\ i \notin DOMAIN tx'[t].w
                    /\ EndsOn(t, i) =>
                          /\ tx'[t].result \in {"notfound", "validation", "cancelled"}
                          /\ db' = db]_vars

\* an issue was archived by a committed ArchiveIssue and the MoveIssue made
\* on it afterwards returned IssueNotFound; the issue is where it was archived
C37_Witness ==
    \E t, u \in TxIds :
        /\ DoneWith(t, "archive", "ok") /\ DoneWith(u, "move", "notfound")
        /\ tx[t].issue = tx[u].issue /\ tx[t].project = tx[u].project
        /\ db.issues[tx[t].issue].archived
        /\ tx[u].target # NoTarget /\ tx[u].target # db.issues[tx[t].issue].status
\* an issue was archived and a later CreateIssue committed a new issue into
\* its status
C37_WitnessCreate ==
    \E t, u \in TxIds :
        /\ DoneWith(t, "archive", "ok") /\ DoneWith(u, "create", "ok")
        /\ db.issues[tx[t].issue].archived
        /\ tx[u].newid \in DOMAIN db.issues
        /\ db.issues[tx[u].newid].status = db.issues[tx[t].issue].status

\* t is an ArchiveIssue and u a MoveIssue of the same project
ArchiveAndMove(t, u) ==
    tx[t].op = "archive" /\ tx[u].op = "move" /\ tx[t].project = tx[u].project
\* no call other than those of t and u has been made
OnlyCalls(t, u) == \A v \in TxIds \ {t, u} : tx[v].pc = "idle"
\* t's ArchiveIssue takes effect in this step
Archives(t) == Returns(t, "archive") /\ tx'[t].result = "ok"
\* the row of the issue named by t, in the committed rows
Place(rows, t) == <<rows[tx[t].issue].status, rows[tx[t].issue].pos>>

\* ArchiveIssue and MoveIssue on the same issue: the archive never takes
\* effect while the move holds the issue's row; a move that finds the issue
\* archived returns IssueNotFound and changes nothing; of the two calls alone,
\* a move that committed leaves the issue, once archived, at the status and
\* position the move gave it
SameIssueOutcomes ==
    \A t, u \in TxIds :
        ArchiveAndMove(t, u) /\ tx[t].issue = tx[u].issue =>
            /\ Archives(t) =>
                  /\ tx[t].issue \notin tx[u].ilocks
                  /\ DoneWith(u, "move", "ok") /\ OnlyCalls(t, u) =>
                        /\ db'.issues[tx[t].issue].archived
                        /\ Place(db'.issues, t) = <<tx[u].tgt, tx[u].tpos>>
            /\ Returns(u, "move") /\ db.issues[tx[u].issue].archived =>
                  /\ tx'[u].result \in {"notfound", "cancelled"}
                  /\ db' = db
            /\ Returns(u, "move") /\ tx'[u].result = "ok" =>
                  ~db.issues[tx[u].issue].archived /\ tx[t].pc # "done"

\* every status of every project has unique active positions
UniqueEverywhere ==
    \A p \in Projects : \A s \in Statuses : UniqueIn(db.issues, p, s)

\* C38 as stated: ArchiveIssue and MoveIssue on the same issue commit in one
\* of the two orders; an ArchiveIssue on another issue never takes effect
\* while a move in progress holds the lock of that issue's status row; active
\* positions stay unique.
C38_ArchiveWaitsForStatus ==
    /\ []UniqueEverywhere
    /\ [][/\ SameIssueOutcomes
          /\ \A t, u \in TxIds :
                ArchiveAndMove(t, u) /\ tx[t].issue # tx[u].issue /\ Archives(t)
                    => ~(Running(u) /\ db.issues[tx[t].issue].status \in tx[u].slocks)]_vars

\* u is a move past lockAffectedIssues and the issue named by t is another
\* active issue of its source or target status
InLockedStatus(t, u) ==
    /\ ArchiveAndMove(t, u) /\ tx[t].issue # tx[u].issue
    /\ tx[u].pc \in {"clamp", "parksel", "commit"} \cup MoveStmtPcs
    /\ ActiveOf(db.issues, tx[t].project, tx[t].issue)
    /\ db.issues[tx[t].issue].status \in {tx[u].src, tx[u].tgt}

\* C38 with the second part from lockAffectedIssues on: once a move has
\* locked the active issues of its source and target status, an ArchiveIssue
\* on another issue of these statuses waits for the move and never takes
\* effect before the move has ended.
C38_ArchiveWaitsForRows ==
    /\ []UniqueEverywhere
    /\ [](\A t, u \in TxIds :
             InLockedStatus(t, u) /\ tx[t].pc = "archive" => u \in WaitsFor(t))
    /\ [][/\ SameIssueOutcomes
          /\ \A t, u \in TxIds : Archives(t) => ~InLockedStatus(t, u)]_vars

\* an ArchiveIssue waits for a move that has locked the rows of its status
\* and is shifting them; the issue is not the one being moved
C38_Witness ==
    \E t, u \in TxIds :
        /\ ArchiveAndMove(t, u) /\ tx[t].pc = "archive"
        /\ tx[t].issue # tx[u].issue /\ tx[t].issue \in tx[u].ilocks
        /\ tx[u].pc \in {"lift", "land", "gaplift", "gapland"}
        /\ db.issues[tx[t].issue].status \in {tx[u].src, tx[u].tgt}
\* the move committed first and the issue was then archived where the move
\* had put it, in another status
C38_WitnessMoveFirst ==
    \E t, u \in TxIds :
        /\ DoneWith(t, "archive", "ok") /\ DoneWith(u, "move", "ok")
        /\ tx[t].issue = tx[u].issue /\ tx[u].src # tx[u].tgt
        /\ db.issues[tx[t].issue].archived
        /\ Place(db.issues, t) = <<tx[u].tgt, tx[u].tpos>>
\* the archive took effect first and the move, called before it did, returned
\* IssueNotFound
C38_WitnessArchiveFirst ==
    \E t, u \in TxIds :
        /\ DoneWith(t, "archive", "ok") /\ DoneWith(u, "move", "notfound")
        /\ tx[t].issue = tx[u].issue /\ u < t
        /\ db.issues[tx[t].issue].archived
\* an ArchiveIssue on another issue of the status is free to run while the
\* move holds the status row but not yet the issue rows
C38_WitnessWindow ==
    \E t, u \in TxIds :
        /\ ArchiveAndMove(t, u) /\ tx[t].pc = "archive" /\ tx[u].pc = "lockis"
        /\ tx[t].issue # tx[u].issue
        /\ ActiveOf(db.issues, tx[t].project, tx[t].issue)
        /\ db.issues[tx[t].issue].status \in tx[u].slocks
        /\ WaitsFor(t) = {}

\* the shift of t's move is a -1 shift: a collapse of the source status or a
\* same-status move towards the end
DownShift(t) == tx[t].src # tx[t].tgt \/ tx[t].tpos > tx[t].spos

\* C39: no statement of CreateIssue or MoveIssue writes a negative
\* status_position: every committed row and every uncommitted version has
\* position >= 0, no call ends on the CHECK (status_position >= 0)
\* constraint, and every row the first statement of a -1 shift lifts had
\* position >= 1.
C39_NoNegativePosition ==
    /\ [](/\ \A i \in DOMAIN db.issues : db.issues[i].pos >= 0
          /\ \A t \in TxIds :
                /\ tx[t].result # "check"
                /\ \A i \in DOMAIN tx[t].w : tx[t].w[i].pos >= 0)
    /\ [][\A t \in TxIds :
             tx[t].op = "move" /\ tx[t].pc = "lift" /\ tx'[t].pc # "lift" /\ DownShift(t)
             => LET before == Seen(tx[t].w, db.issues)
                    after == Seen(tx'[t].w, db'.issues)
                IN  \A i \in DOMAIN before :
                        after[i] # before[i] => before[i].pos >= 1]_vars

\* a move out of a status in which an archived issue has left a gap below the
\* moving issue is between the two statements of its collapse, a row lifted
\* from position 2
C39_Witness ==
    \E t \in TxIds :
        /\ tx[t].op = "move" /\ tx[t].pc = "land" /\ tx[t].src # tx[t].tgt
        /\ \E i \in DOMAIN tx[t].w : tx[t].w[i].pos = reorderOffset + 2
        /\ \E k \in DOMAIN db.issues :
              /\ db.issues[k].archived /\ db.issues[k].project = tx[t].project
              /\ db.issues[k].status = tx[t].src /\ db.issues[k].pos < tx[t].spos
              /\ db.issues[k].pos \notin ColumnPositions(db.issues, tx[t].project, tx[t].src)
\* the land statement of a collapse has written position 0
C39_WitnessZero ==
    \E t \in TxIds :
        /\ tx[t].op = "move" /\ tx[t].pc = "gaplift" /\ tx[t].src # tx[t].tgt
        /\ \E i \in DOMAIN tx[t].w \ {tx[t].issue} :
              tx[t].w[i].pos = 0 /\ tx[t].w[i].status = tx[t].src
\* a same-status move towards the end has shifted a row down to position 0
C39_WitnessSame ==
    \E t \in TxIds :
        /\ tx[t].op = "move" /\ tx[t].pc = "place" /\ tx[t].src = tx[t].tgt
        /\ tx[t].tpos > tx[t].spos
        /\ \E i \in DOMAIN tx[t].w \ {tx[t].issue} : tx[t].w[i].pos = 0

====
